---- MODULE Spec2Model ----
(***************************************************************************)
(* Model of day6/src/main.rs: the lanternfish simulation.  The main thread *)
(* splits the population into thread_count contiguous partitions, spawns   *)
(* one worker thread per partition, receives one count per worker over an  *)
(* mpsc channel, joins the workers and prints the total.                   *)
(***************************************************************************)
EXTENDS Integers, Sequences, FiniteSets, TLC

\* ---------------------------------------------------------------- bounds
MaxPop == 3
MaxThreads == 2
MaxDays == 2

\* ------------------------------------------------------ program constants
DEFAULT_SPAWN_TIMER == 6
FIRST_SPAWN_TIMER == 8
U8Max == 255

\* Timer values the initial population is drawn from: a fish that spawns on
\* the first day and, as load_input_data accepts every value that parses as
\* u8, a value above 8.
InputTimers == {0, 9}

\* The arguments of compute_subvec_range_test.
TEST_VEC_SIZE == 9
TEST_SUBVEC_SIZE == 2
TEST_MAX_ITER == 5

\* The population and the horizons of simulate_spawning_group_test.
TEST_FISH == <<3, 4, 3, 1, 2>>
TEST_SIM_TIMES == {18, 80}

NoTotal == -1

VARIABLES
    lanternfish,      \* the initial population: a sequence of spawn timers
    thread_count,     \* thread::available_parallelism()
    simulation_time,  \* args.simulation_time
    progress_bars,    \* index 0..thread_count-1 per worker, thread_count the aggregate
    chan,             \* values sent on count_tx and not yet received
    fish_counts,      \* the aggregator's vector, vec![0] at first
    children,         \* number of worker threads spawned so far
    joined,           \* number of worker threads joined so far
    mpc,              \* position of the main thread
    total,            \* the printed total, NoTotal while nothing is printed
    wpc,              \* position of each worker thread
    subvec,           \* each worker's partition
    has_pb,           \* whether simulate_spawning_group got Some(pb)
    fish_idx,         \* number of originating fish the worker has finished
    spawns,           \* the vector of simulate_spawning
    day,              \* the day counter of simulate_spawning
    count,            \* the accumulator of simulate_spawning_group
    sends             \* number of values each worker has sent on the channel

vars == <<lanternfish, thread_count, simulation_time, progress_bars, chan,
          fish_counts, children, joined, mpc, total, wpc, subvec, has_pb,
          fish_idx, spawns, day, count, sends>>

inputVars == <<lanternfish, thread_count, simulation_time>>
mainVars == <<fish_counts, children, joined, mpc, total>>
simVars == <<fish_idx, spawns, day, count>>

Workers == 0 .. thread_count - 1

\* ------------------------------------------------------------ sequences
RECURSIVE SumSeq(_)
SumSeq(s) == IF s = <<>> THEN 0 ELSE Head(s) + SumSeq(Tail(s))

\* ------------------------------------------------------- Lanternfish
\* simulate_day: the updated timer and the optional newly spawned fish.
simulate_day_reset7(t) ==
    IF t = 0
    THEN [timer |-> 7, spawn |-> <<FIRST_SPAWN_TIMER>>]
    ELSE [timer |-> t - 1, spawn |-> <<>>]

simulate_day_wrapping(t) ==
    [timer |-> (t - 1) % (U8Max + 1),
     spawn |-> IF t = 0 THEN <<FIRST_SPAWN_TIMER>> ELSE <<>>]

simulate_day(t) ==
    IF t = 0
    THEN [timer |-> DEFAULT_SPAWN_TIMER, spawn |-> <<FIRST_SPAWN_TIMER>>]
    ELSE [timer |-> t - 1, spawn |-> <<>>]

\* One iteration of the day loop of simulate_spawning: every fish of the
\* vector is stepped in place, the fish they return are collected and
\* appended afterwards.
DayStepGrowing(s) ==
    LET stepped == [i \in 1 .. Len(s) |-> simulate_day(s[i]).timer]
        parents == SelectSeq(s, LAMBDA t : simulate_day(t).spawn # <<>>)
        new_spawns == [i \in 1 .. Len(parents) |->
                          simulate_day(simulate_day(parents[i]).spawn[1]).timer]
    IN  stepped \o new_spawns

DayStep(s) ==
    LET stepped == [i \in 1 .. Len(s) |-> simulate_day(s[i]).timer]
        parents == SelectSeq(s, LAMBDA t : simulate_day(t).spawn # <<>>)
        new_spawns == [i \in 1 .. Len(parents) |-> simulate_day(parents[i]).spawn[1]]
    IN  stepped \o new_spawns

RECURSIVE SpawnsAfter(_, _)
SpawnsAfter(s, days) ==
    IF days = 0 THEN s ELSE SpawnsAfter(DayStep(s), days - 1)

simulate_spawning(fish, sim_time) == Len(SpawnsAfter(<<fish>>, sim_time))

RECURSIVE simulate_spawning_group(_, _)
simulate_spawning_group(fishes, sim_time) ==
    IF fishes = <<>> THEN 0
    ELSE simulate_spawning(Head(fishes), sim_time)
         + simulate_spawning_group(Tail(fishes), sim_time)

\* ------------------------------------------------------- partitioning
compute_subvec_range_no_rest(vec_size, subvec_size, iteration, max_iter) ==
    LET subvec_start == iteration * subvec_size
    IN  [start |-> subvec_start, end |-> subvec_start + subvec_size]

compute_subvec_range_inclusive(vec_size, subvec_size, iteration, max_iter) ==
    LET subvec_start == iteration * subvec_size
        subvec_end == IF iteration < max_iter - 1
                      THEN subvec_start + subvec_size
                      ELSE vec_size + 1
    IN  [start |-> subvec_start, end |-> subvec_end]

compute_subvec_range(vec_size, subvec_size, iteration, max_iter) ==
    LET subvec_start == iteration * subvec_size
        subvec_end == IF iteration < max_iter - 1
                      THEN subvec_start + subvec_size
                      ELSE vec_size
    IN  [start |-> subvec_start, end |-> subvec_end]

\* lanternfish.len() / thread_count
subvec_size_ceil ==
    (Len(lanternfish) + thread_count - 1) \div thread_count

subvec_size == Len(lanternfish) \div thread_count

\* ------------------------------------------------------- progress bars
NewBar(len) == [pos |-> 0, len |-> len, msg |-> <<>>, finished |-> FALSE]

set_length(pb, len) == [pb EXCEPT !.len = len]
inc(pb, delta) == [pb EXCEPT !.pos = pb.pos + delta]
set_message(pb, msg) == [pb EXCEPT !.msg = msg]
finish_with_message(pb, msg) ==
    [pb EXCEPT !.pos = pb.len, !.msg = msg, !.finished = TRUE]

\* ------------------------------------------------------- load_input_data
\* The input text is split at the commas; a piece is a decimal number or
\* some other text (an empty piece, a number with a trailing newline).
NumToken(n) == [kind |-> "num", val |-> n]
TextToken == [kind |-> "text", val |-> 0]

\* val.parse::<u8>().ok(): the value, or nothing.
parse_u8(tok) ==
    IF tok.kind = "num" /\ tok.val \in 0 .. U8Max THEN <<tok.val>> ELSE <<>>

\* filter_map keeps the pieces that parse, in order; nothing else is
\* checked.
load_input_data(input) ==
    LET parsed == SelectSeq(input, LAMBDA tok : parse_u8(tok) # <<>>)
    IN  [i \in 1 .. Len(parsed) |-> parse_u8(parsed[i])[1]]

InputTokens ==
    {NumToken(t) : t \in InputTimers} \cup {NumToken(U8Max + 1), TextToken}

\* split(",") yields at least one piece.
Inputs == UNION {[1 .. n -> InputTokens] : n \in 1 .. MaxPop}

\* ------------------------------------------------------------- Init
Populations == {load_input_data(input) : input \in Inputs}

InitCommon ==
    /\ progress_bars = [i \in 0 .. thread_count |->
                           IF i = thread_count
                           THEN NewBar(simulation_time * thread_count)
                           ELSE NewBar(simulation_time)]
    /\ chan = <<>>
    /\ fish_counts = <<0>>
    /\ children = 0
    /\ joined = 0
    /\ total = NoTotal
    /\ fish_idx = [w \in Workers |-> 0]
    /\ spawns = [w \in Workers |-> <<>>]
    /\ day = [w \in Workers |-> 0]
    /\ count = [w \in Workers |-> 0]
    /\ sends = [w \in Workers |-> 0]

Init ==
    /\ lanternfish \in Populations
    /\ thread_count \in 1 .. MaxThreads
    /\ simulation_time \in 0 .. MaxDays
    /\ mpc = "spawn"
    /\ wpc = [w \in Workers |-> "unspawned"]
    /\ subvec = [w \in Workers |-> <<>>]
    /\ has_pb = [w \in Workers |-> TRUE]
    /\ InitCommon

\* The state in which simulate_spawning_group_test calls
\* simulate_spawning_group: one caller, no progress bars, no threads.
InitTest ==
    /\ lanternfish = TEST_FISH
    /\ thread_count = 1
    /\ simulation_time \in TEST_SIM_TIMES
    /\ mpc = "test"
    /\ wpc = [w \in Workers |-> "start"]
    /\ subvec = [w \in Workers |-> TEST_FISH]
    /\ has_pb = [w \in Workers |-> FALSE]
    /\ InitCommon

\* main on a host with TEST_MAX_ITER cores and a population of
\* TEST_VEC_SIZE fish, about to build the partitions.
InitPartition ==
    /\ lanternfish \in [1 .. TEST_VEC_SIZE -> InputTimers]
    /\ thread_count = TEST_MAX_ITER
    /\ simulation_time = 0
    /\ mpc = "spawn"
    /\ wpc = [w \in Workers |-> "unspawned"]
    /\ subvec = [w \in Workers |-> <<>>]
    /\ has_pb = [w \in Workers |-> TRUE]
    /\ InitCommon

\* Two calls of simulate_spawning_group on the same fish and horizon, side
\* by side: call 0 with Some(pb), as main makes it, call 1 with None, as
\* the unit test makes it.
InitPair ==
    /\ lanternfish \in Populations
    /\ thread_count = 2
    /\ simulation_time \in 0 .. MaxDays
    /\ mpc = "test"
    /\ wpc = [w \in Workers |-> "start"]
    /\ subvec = [w \in Workers |-> lanternfish]
    /\ has_pb = [w \in Workers |-> w = 0]
    /\ InitCommon

\* ------------------------------------------------ simulate_spawning_group
\* pb.set_length(lanternfish.len()); let mut count = 0
GroupStartNoLength(w) ==
    /\ wpc[w] = "start"
    /\ wpc' = [wpc EXCEPT ![w] = "loop"]
    /\ count' = [count EXCEPT ![w] = 0]
    /\ UNCHANGED <<inputVars, mainVars, chan, subvec, has_pb, fish_idx,
                   spawns, day, sends, progress_bars>>

GroupStart(w) ==
    /\ wpc[w] = "start"
    /\ wpc' = [wpc EXCEPT ![w] = "loop"]
    /\ count' = [count EXCEPT ![w] = 0]
    /\ progress_bars' = IF has_pb[w]
                        THEN [progress_bars EXCEPT
                                 ![w] = set_length(@, Len(subvec[w]))]
                        ELSE progress_bars
    /\ UNCHANGED <<inputVars, mainVars, chan, subvec, has_pb, fish_idx,
                   spawns, day, sends>>

\* for fish in lanternfish: the next fish enters simulate_spawning, or the
\* loop ends and the function returns count.
GroupNextFish(w) ==
    /\ wpc[w] = "loop"
    /\ IF fish_idx[w] < Len(subvec[w])
       THEN /\ spawns' = [spawns EXCEPT ![w] = <<subvec[w][fish_idx[w] + 1]>>]
            /\ day' = [day EXCEPT ![w] = 0]
            /\ wpc' = [wpc EXCEPT ![w] = "sim"]
       ELSE /\ wpc' = [wpc EXCEPT ![w] = "returned"]
            /\ UNCHANGED <<spawns, day>>
    /\ UNCHANGED <<inputVars, mainVars, chan, subvec, has_pb, fish_idx,
                   count, sends, progress_bars>>

\* for _ in 0..sim_time: one day of simulate_spawning.
SimulateDayInclusive(w) ==
    /\ wpc[w] = "sim"
    /\ day[w] <= simulation_time
    /\ spawns' = [spawns EXCEPT ![w] = DayStep(@)]
    /\ day' = [day EXCEPT ![w] = @ + 1]
    /\ UNCHANGED <<inputVars, mainVars, chan, subvec, has_pb, fish_idx,
                   count, sends, progress_bars, wpc>>

SimulateDayWithInc(w) ==
    /\ wpc[w] = "sim"
    /\ day[w] < simulation_time
    /\ spawns' = [spawns EXCEPT ![w] = DayStep(@)]
    /\ day' = [day EXCEPT ![w] = @ + 1]
    /\ progress_bars' = IF has_pb[w]
                        THEN [progress_bars EXCEPT ![w] = inc(@, 1)]
                        ELSE progress_bars
    /\ UNCHANGED <<inputVars, mainVars, chan, subvec, has_pb, fish_idx,
                   count, sends, wpc>>

SimulateDay(w) ==
    /\ wpc[w] = "sim"
    /\ day[w] < simulation_time
    /\ spawns' = [spawns EXCEPT ![w] = DayStep(@)]
    /\ day' = [day EXCEPT ![w] = @ + 1]
    /\ UNCHANGED <<inputVars, mainVars, chan, subvec, has_pb, fish_idx,
                   count, sends, progress_bars, wpc>>

\* simulate_spawning returns spawns.len(); count += ...; pb.inc(1)
GroupEndFishAssign(w) ==
    /\ wpc[w] = "sim"
    /\ day[w] = simulation_time
    /\ count' = [count EXCEPT ![w] = Len(spawns[w])]
    /\ fish_idx' = [fish_idx EXCEPT ![w] = @ + 1]
    /\ progress_bars' = IF has_pb[w]
                        THEN [progress_bars EXCEPT ![w] = inc(@, 1)]
                        ELSE progress_bars
    /\ wpc' = [wpc EXCEPT ![w] = "loop"]
    /\ UNCHANGED <<inputVars, mainVars, chan, subvec, has_pb, spawns, day,
                   sends>>

GroupEndFishInArm(w) ==
    /\ wpc[w] = "sim"
    /\ day[w] = simulation_time
    /\ count' = IF has_pb[w]
                THEN [count EXCEPT ![w] = @ + Len(spawns[w])]
                ELSE count
    /\ fish_idx' = [fish_idx EXCEPT ![w] = @ + 1]
    /\ progress_bars' = IF has_pb[w]
                        THEN [progress_bars EXCEPT ![w] = inc(@, 1)]
                        ELSE progress_bars
    /\ wpc' = [wpc EXCEPT ![w] = "loop"]
    /\ UNCHANGED <<inputVars, mainVars, chan, subvec, has_pb, spawns, day,
                   sends>>

GroupEndFishIncTotal(w) ==
    /\ wpc[w] = "sim"
    /\ day[w] = simulation_time
    /\ count' = [count EXCEPT ![w] = @ + Len(spawns[w])]
    /\ fish_idx' = [fish_idx EXCEPT ![w] = @ + 1]
    /\ progress_bars' = IF has_pb[w]
                        THEN [progress_bars EXCEPT
                                 ![w] = inc(@, 1),
                                 ![thread_count] = inc(@, 1)]
                        ELSE progress_bars
    /\ wpc' = [wpc EXCEPT ![w] = "loop"]
    /\ UNCHANGED <<inputVars, mainVars, chan, subvec, has_pb, spawns, day,
                   sends>>

GroupEndFish(w) ==
    /\ wpc[w] = "sim"
    /\ day[w] = simulation_time
    /\ count' = [count EXCEPT ![w] = @ + Len(spawns[w])]
    /\ fish_idx' = [fish_idx EXCEPT ![w] = @ + 1]
    /\ progress_bars' = IF has_pb[w]
                        THEN [progress_bars EXCEPT ![w] = inc(@, 1)]
                        ELSE progress_bars
    /\ wpc' = [wpc EXCEPT ![w] = "loop"]
    /\ UNCHANGED <<inputVars, mainVars, chan, subvec, has_pb, spawns, day,
                   sends>>

\* ------------------------------------------------------ worker closure
\* thread_pb.finish_with_message(format!("thread {id}: done"))
WorkerFinishBarWrongId(w) ==
    /\ mpc # "test"
    /\ wpc[w] = "returned"
    /\ progress_bars' = [progress_bars EXCEPT
                            ![(w + 1) % thread_count] =
                                finish_with_message(@, <<"thread", w, "done">>)]
    /\ wpc' = [wpc EXCEPT ![w] = "send"]
    /\ UNCHANGED <<inputVars, mainVars, chan, subvec, has_pb, simVars, sends>>

WorkerFinishBar(w) ==
    /\ mpc # "test"
    /\ wpc[w] = "returned"
    /\ progress_bars' = [progress_bars EXCEPT
                            ![w] = finish_with_message(@, <<"thread", w, "done">>)]
    /\ wpc' = [wpc EXCEPT ![w] = "send"]
    /\ UNCHANGED <<inputVars, mainVars, chan, subvec, has_pb, simVars, sends>>

\* thread_count_tx.send(count).unwrap()
WorkerSendEarly(w) ==
    /\ mpc # "test"
    /\ wpc[w] \in {"loop", "send"}
    /\ chan' = Append(chan, count[w])
    /\ sends' = [sends EXCEPT ![w] = @ + 1]
    /\ wpc' = [wpc EXCEPT ![w] = "exit"]
    /\ UNCHANGED <<inputVars, mainVars, subvec, has_pb, simVars, progress_bars>>

WorkerSendNonZero(w) ==
    /\ mpc # "test"
    /\ wpc[w] = "send"
    /\ IF count[w] # 0
       THEN /\ chan' = Append(chan, count[w])
            /\ sends' = [sends EXCEPT ![w] = @ + 1]
       ELSE UNCHANGED <<chan, sends>>
    /\ wpc' = [wpc EXCEPT ![w] = "exit"]
    /\ UNCHANGED <<inputVars, mainVars, subvec, has_pb, simVars, progress_bars>>

WorkerSend(w) ==
    /\ mpc # "test"
    /\ wpc[w] = "send"
    /\ chan' = Append(chan, count[w])
    /\ sends' = [sends EXCEPT ![w] = @ + 1]
    /\ wpc' = [wpc EXCEPT ![w] = "exit"]
    /\ UNCHANGED <<inputVars, mainVars, subvec, has_pb, simVars, progress_bars>>

\* The closure returns: its captures (the sender clone among them) are
\* dropped and the thread ends, which is what join waits for.
WorkerExit(w) ==
    /\ mpc # "test"
    /\ wpc[w] = "exit"
    /\ wpc' = [wpc EXCEPT ![w] = "done"]
    /\ UNCHANGED <<inputVars, mainVars, chan, subvec, has_pb, simVars, sends,
                   progress_bars>>

\* The thread panics while it simulates (a capacity overflow of the spawns
\* vector, an overflow of count): it unwinds without sending, and the
\* unwinding drops the locals of the simulation.
WorkerPanic(w) ==
    /\ mpc # "test"
    /\ wpc[w] = "sim"
    /\ wpc' = [wpc EXCEPT ![w] = "panicked"]
    /\ spawns' = [spawns EXCEPT ![w] = <<>>]
    /\ day' = [day EXCEPT ![w] = 0]
    /\ count' = [count EXCEPT ![w] = 0]
    /\ fish_idx' = [fish_idx EXCEPT ![w] = 0]
    /\ UNCHANGED <<inputVars, mainVars, chan, subvec, has_pb, sends,
                   progress_bars>>

Terminated(w) == wpc[w] \in {"done", "panicked"}

\* ---------------------------------------------------------------- main
\* count_tx, the sender main created the channel with, lives until main
\* returns; each worker owns a clone until its thread ends.
MainHoldsSender == mpc \notin {"done", "failed"}
WorkerHoldsSender(w) == wpc[w] \notin {"unspawned", "done", "panicked"}
Disconnected == ~MainHoldsSender /\ \A w \in Workers : ~WorkerHoldsSender(w)

\* recv() returns when a value is queued or every sender is gone.
RecvReady == chan # <<>> \/ Disconnected

\* One iteration of the spawn loop.
MainSpawn ==
    /\ mpc = "spawn"
    /\ children < thread_count
    /\ LET id == children
           r == compute_subvec_range(Len(lanternfish), subvec_size, id,
                                     thread_count)
       IN  IF r.start < r.end /\ r.end > Len(lanternfish)
           THEN \* lanternfish[i] out of bounds: main panics
                /\ mpc' = "failed"
                /\ UNCHANGED <<children, subvec, wpc, progress_bars>>
           ELSE /\ subvec' = [subvec EXCEPT
                                 ![id] = SubSeq(lanternfish, r.start + 1, r.end)]
                /\ progress_bars' = [progress_bars EXCEPT
                       ![id] = set_message(@, <<"thread", id, "simulating">>)]
                /\ wpc' = [wpc EXCEPT ![id] = "start"]
                /\ children' = children + 1
                /\ mpc' = IF children + 1 = thread_count THEN "recv" ELSE "spawn"
    /\ UNCHANGED <<inputVars, chan, fish_counts, joined, total, has_pb,
                   simVars, sends>>

\* fish_counts.push(count_rx.recv().unwrap_or(0))
MainRecvOneMore ==
    /\ mpc = "recv"
    /\ RecvReady
    /\ IF chan # <<>>
       THEN /\ fish_counts' = Append(fish_counts, Head(chan))
            /\ chan' = Tail(chan)
       ELSE /\ fish_counts' = Append(fish_counts, 0)
            /\ UNCHANGED chan
    /\ mpc' = IF Len(fish_counts') - 1 = children + 1 THEN "finish" ELSE "recv"
    /\ UNCHANGED <<inputVars, children, joined, total, wpc, subvec, has_pb,
                   simVars, sends, progress_bars>>

MainRecv ==
    /\ mpc = "recv"
    /\ RecvReady
    /\ IF chan # <<>>
       THEN /\ fish_counts' = Append(fish_counts, Head(chan))
            /\ chan' = Tail(chan)
       ELSE /\ fish_counts' = Append(fish_counts, 0)
            /\ UNCHANGED chan
    /\ mpc' = IF Len(fish_counts') - 1 = children THEN "finish" ELSE "recv"
    /\ UNCHANGED <<inputVars, children, joined, total, wpc, subvec, has_pb,
                   simVars, sends, progress_bars>>

\* progress_bars[thread_count].finish_with_message("all done")
MainFinishBar ==
    /\ mpc = "finish"
    /\ progress_bars' = [progress_bars EXCEPT
                            ![thread_count] = finish_with_message(@, <<"all done">>)]
    /\ mpc' = "join"
    /\ UNCHANGED <<inputVars, chan, fish_counts, children, joined, total, wpc,
                   subvec, has_pb, simVars, sends>>

\* child.join().expect("Child thread panicked"), in spawn order
MainJoinFirstOnly ==
    /\ mpc = "join"
    /\ joined < children
    /\ Terminated(joined)
    /\ IF wpc[joined] = "panicked"
       THEN /\ mpc' = "failed"
            /\ UNCHANGED joined
       ELSE /\ joined' = joined + 1
            /\ mpc' = "print"
    /\ UNCHANGED <<inputVars, chan, fish_counts, children, total, wpc, subvec,
                   has_pb, simVars, sends, progress_bars>>

MainJoin ==
    /\ mpc = "join"
    /\ joined < children
    /\ Terminated(joined)
    /\ IF wpc[joined] = "panicked"
       THEN /\ mpc' = "failed"
            /\ UNCHANGED joined
       ELSE /\ joined' = joined + 1
            /\ mpc' = IF joined + 1 = children THEN "print" ELSE "join"
    /\ UNCHANGED <<inputVars, chan, fish_counts, children, total, wpc, subvec,
                   has_pb, simVars, sends, progress_bars>>

\* let total = fish_counts.iter().sum(); println!
MainPrintLast ==
    /\ mpc = "print"
    /\ total' = fish_counts[Len(fish_counts)]
    /\ mpc' = "done"
    /\ UNCHANGED <<inputVars, chan, fish_counts, children, joined, wpc, subvec,
                   has_pb, simVars, sends, progress_bars>>

MainPrint ==
    /\ mpc = "print"
    /\ total' = SumSeq(fish_counts)
    /\ mpc' = "done"
    /\ UNCHANGED <<inputVars, chan, fish_counts, children, joined, wpc, subvec,
                   has_pb, simVars, sends, progress_bars>>

\* A main that gives up its own sender after the spawn loop and discards
\* the result of join: the receive then returns 0 for a worker that died,
\* and nothing stops the total.
MainLenient ==
    \/ MainSpawn
    \/ /\ mpc = "recv"
       /\ chan # <<>> \/ \A w \in Workers : ~WorkerHoldsSender(w)
       /\ IF chan # <<>>
          THEN /\ fish_counts' = Append(fish_counts, Head(chan))
               /\ chan' = Tail(chan)
          ELSE /\ fish_counts' = Append(fish_counts, 0)
               /\ UNCHANGED chan
       /\ mpc' = IF Len(fish_counts') - 1 = children THEN "finish" ELSE "recv"
       /\ UNCHANGED <<inputVars, children, joined, total, wpc, subvec, has_pb,
                      simVars, sends, progress_bars>>
    \/ MainFinishBar
    \/ /\ mpc = "join"
       /\ joined < children
       /\ Terminated(joined)
       /\ joined' = joined + 1
       /\ mpc' = IF joined + 1 = children THEN "print" ELSE "join"
       /\ UNCHANGED <<inputVars, chan, fish_counts, children, total, wpc,
                      subvec, has_pb, simVars, sends, progress_bars>>
    \/ MainPrint

\* The body of main from the spawn loop to the println!.
Main ==
    \/ MainSpawn
    \/ MainRecv
    \/ MainFinishBar
    \/ MainJoin
    \/ MainPrint

\* ---------------------------------------------------------------- Next
Next ==
    \/ Main
    \/ \E w \in Workers : GroupStart(w)
    \/ \E w \in Workers : GroupNextFish(w)
    \/ \E w \in Workers : SimulateDay(w)
    \/ \E w \in Workers : GroupEndFish(w)
    \/ \E w \in Workers : WorkerFinishBar(w)
    \/ \E w \in Workers : WorkerSend(w)
    \/ \E w \in Workers : WorkerExit(w)
    \/ \E w \in Workers : WorkerPanic(w)

Spec == Init /\ [][Next]_vars

\* The steps of worker thread w's closure; the panic is not one of them.
WorkerRun(w) ==
    /\ w \in Workers
    /\ \/ GroupStart(w)
       \/ GroupNextFish(w)
       \/ SimulateDay(w)
       \/ GroupEndFish(w)
       \/ WorkerFinishBar(w)
       \/ WorkerSend(w)
       \/ WorkerExit(w)

\* The operating system schedules every thread that can run: the main
\* thread and each spawned worker keep taking steps while they are not
\* blocked.  Nothing forces a panic.
FairSpec ==
    /\ Spec
    /\ WF_vars(Main)
    /\ \A w \in 0 .. MaxThreads - 1 : WF_vars(WorkerRun(w))

\* simulate_spawning_group called directly, as the unit test does.
NextTest ==
    \/ \E w \in Workers : GroupStart(w)
    \/ \E w \in Workers : GroupNextFish(w)
    \/ \E w \in Workers : SimulateDay(w)
    \/ \E w \in Workers : GroupEndFish(w)

SpecTest == InitTest /\ [][NextTest]_vars

SpecPair == InitPair /\ [][NextTest]_vars

\* The spawn loop alone: main builds the partitions.
NextPartition == MainSpawn

SpecPartition == InitPartition /\ [][NextPartition]_vars

TypeOK ==
    /\ mpc \in {"spawn", "recv", "finish", "join", "print", "done", "failed", "test"}
    /\ \A w \in Workers :
          wpc[w] \in {"unspawned", "start", "loop", "sim", "returned", "send",
                      "exit", "done", "panicked"}

\* ================================================================ claims
Ranges ==
    [i \in Workers |->
        compute_subvec_range(Len(lanternfish), subvec_size, i, thread_count)]

Indices(r) == r.start .. r.end - 1

RECURSIVE ConcatSubvecs(_)
ConcatSubvecs(n) ==
    IF n = 0 THEN <<>> ELSE ConcatSubvecs(n - 1) \o subvec[n - 1]

SomePanicked == \E w \in Workers : wpc[w] = "panicked"
AllTerminated == \A w \in Workers : Terminated(w)

\* C1: for the population size N and the worker count W of the run, the W
\* ranges compute_subvec_range(N, N / W, i, W) satisfy start <= end <= N,
\* are pairwise disjoint, cover exactly [0, N) and their sizes sum to N;
\* once main has built every partition, the partitions put end to end are
\* the initial population.
C1_PartitionCover ==
    LET N == Len(lanternfish)
        r == Ranges
    IN  /\ \A i \in Workers : r[i].start <= r[i].end /\ r[i].end <= N
        /\ \A i, j \in Workers :
              i # j => Indices(r[i]) \cap Indices(r[j]) = {}
        /\ UNION {Indices(r[i]) : i \in Workers} = 0 .. N - 1
        /\ SumSeq([k \in 1 .. thread_count |->
                      r[k - 1].end - r[k - 1].start]) = N
        /\ children = thread_count => ConcatSubvecs(thread_count) = lanternfish

\* Every partition is built, the size is not a multiple of the worker count
\* and the last partition holds the rest.
C1_Witness ==
    /\ children = thread_count
    /\ thread_count > 1
    /\ Len(lanternfish) > thread_count
    /\ Len(lanternfish) % thread_count # 0
    /\ Len(subvec[thread_count - 1]) > subvec_size

\* C2: the total main prints is the sum, over every fish of the whole
\* initial population, of simulate_spawning of that fish alone for the
\* horizon; the worker count does not enter.
C2_TotalIsSumOfSingles ==
    total # NoTotal =>
        total = simulate_spawning_group(lanternfish, simulation_time)

C2_Witness ==
    /\ total # NoTotal
    /\ thread_count > 1
    /\ Len(lanternfish) > thread_count
    /\ total > Len(lanternfish)

\* C3: when every worker thread has ended and main still waits in its
\* receive loop, the receive returns (a queued value, or 0 for the worker
\* that never sent): it does not block forever.
C3_RecvReturns ==
    (mpc = "recv" /\ AllTerminated) => RecvReady

\* C4: when a worker has panicked and the run has come to rest (no thread
\* can take a step), main has failed at the join of that worker.
C4_PanicSurfacesAtJoin ==
    (SomePanicked /\ ~ENABLED Next) => mpc = "failed"

\* C5: no total is printed in a run where a worker thread panicked.
C5_NoTotalAfterPanic ==
    total # NoTotal => ~SomePanicked

\* A worker has panicked, the others have ended and main has received what
\* they sent.
C5_Witness ==
    /\ SomePanicked
    /\ AllTerminated
    /\ thread_count > 1
    /\ chan = <<>>
    /\ Len(fish_counts) > 1
    /\ total = NoTotal

\* C6: the total is printed only after every spawned worker thread has
\* ended and has been joined.
C6_PrintAfterAllJoined ==
    (mpc \in {"print", "done"} \/ total # NoTotal) =>
        /\ children = thread_count
        /\ joined = thread_count
        /\ \A w \in Workers : wpc[w] = "done"

\* The total is printed and the first value received was not worker 0's.
C6_Witness ==
    /\ total # NoTotal
    /\ thread_count > 1
    /\ fish_counts[2] # count[0]

\* C7: a worker sends at most one value, and only after it has simulated
\* every fish of its partition; a worker that ends without a panic has sent
\* exactly one; every value sent is queued or received; and once the
\* receive loop is over main has received exactly one value per worker.
C7_ExactlyOneSend ==
    /\ \A w \in Workers :
          /\ sends[w] <= 1
          /\ sends[w] = 1 =>
                /\ fish_idx[w] = Len(subvec[w])
                /\ wpc[w] \in {"exit", "done"}
          /\ wpc[w] \in {"exit", "done"} => sends[w] = 1
    /\ Len(chan) + Len(fish_counts) - 1
          = SumSeq([k \in 1 .. thread_count |-> sends[k - 1]])
    /\ mpc \in {"finish", "join", "print", "done"} =>
          /\ Len(fish_counts) - 1 = thread_count
          /\ chan = <<>>
          /\ \A w \in Workers : sends[w] = 1

C7_Witness ==
    /\ mpc = "done"
    /\ thread_count > 1
    /\ \A w \in Workers : sends[w] = 1 /\ Len(subvec[w]) > 0

\* C8: simulate_day on timer 0 leaves timer 6 and returns a fish with
\* timer 8; on a timer t > 0 it leaves t - 1 and returns nothing.  This
\* holds for every u8 value and for every timer a worker holds.
HeldTimers ==
    UNION {{spawns[w][i] : i \in 1 .. Len(spawns[w])} : w \in Workers}

C8_SimulateDay ==
    \A t \in (0 .. U8Max) \cup HeldTimers :
        LET r == simulate_day(t)
        IN  IF t = 0
            THEN r.timer = 6 /\ r.spawn = <<8>>
            ELSE r.timer = t - 1 /\ r.spawn = <<>>

\* A fish with timer 0 has been stepped: it shows 6 and its spawn 8.
C8_Witness ==
    \E w \in Workers :
        /\ wpc[w] = "sim"
        /\ day[w] = 2
        /\ spawns[w] = <<6, 8>>

\* C9: a day of simulate_spawning steps each fish that was in the vector
\* before the day exactly once, keeps them in place, and appends one fish
\* with timer 8 per fish that was at 0, unstepped.
C9_DayStepsOldFishOnly ==
    [][\A w \in Workers :
          (wpc[w] = "sim" /\ day'[w] = day[w] + 1) =>
              LET old == spawns[w]
                  new == spawns'[w]
                  zeros == {i \in 1 .. Len(old) : old[i] = 0}
              IN  /\ Len(new) = Len(old) + Cardinality(zeros)
                  /\ \A i \in 1 .. Len(old) :
                        new[i] = IF old[i] = 0 THEN DEFAULT_SPAWN_TIMER
                                 ELSE old[i] - 1
                  /\ \A i \in Len(old) + 1 .. Len(new) :
                        new[i] = FIRST_SPAWN_TIMER]_vars

\* A fish that started at 0 has been stepped once; the fish it spawned in
\* that day is still at 8.
C9_Witness ==
    \E w \in Workers :
        /\ wpc[w] = "sim"
        /\ day[w] = 1
        /\ subvec[w][fish_idx[w] + 1] = 0
        /\ spawns[w] = <<DEFAULT_SPAWN_TIMER, FIRST_SPAWN_TIMER>>

\* C10: simulate_spawning_group on 3,4,3,1,2 returns 26 for 18 days and
\* 5934 for 80 days.
C10_TestCounts ==
    (wpc[0] = "returned" /\ subvec[0] = TEST_FISH) =>
        /\ simulation_time = 18 => count[0] = 26
        /\ simulation_time = 80 => count[0] = 5934

C10_Witness ==
    /\ wpc[0] = "returned"
    /\ subvec[0] = TEST_FISH
    /\ simulation_time = 80
    /\ count[0] = 5934
Returned(w) == wpc[w] \in {"returned", "send", "exit", "done"}

\* C11: with a horizon of 0 days simulate_spawning returns 1 for every
\* fish (no day is simulated, the vector keeps its one fish),
\* simulate_spawning_group returns the length of the partition, and the
\* printed total is the size of the initial population.
C11_ZeroHorizon ==
    simulation_time = 0 =>
        /\ \A i \in 1 .. Len(lanternfish) :
              simulate_spawning(lanternfish[i], simulation_time) = 1
        /\ \A w \in Workers :
              /\ wpc[w] = "sim" => day[w] = 0 /\ Len(spawns[w]) = 1
              /\ Returned(w) => count[w] = Len(subvec[w])
        /\ total # NoTotal => total = Len(lanternfish)

C11_Witness ==
    /\ simulation_time = 0
    /\ thread_count > 1
    /\ Len(lanternfish) > thread_count
    /\ \E i \in 1 .. Len(lanternfish) : lanternfish[i] = 0
    /\ total = Len(lanternfish)
PartitionSizes == [k \in 1 .. thread_count |-> Len(subvec[k - 1])]

NineAmongFive ==
    /\ Len(lanternfish) = TEST_VEC_SIZE
    /\ thread_count = TEST_MAX_ITER
    /\ children = thread_count

\* C12 as stated: 9 fish among 5 workers, with the size main computes
\* (9 / 5, truncating), give partitions of sizes 2,2,2,2,1.
C12_Original ==
    NineAmongFive => PartitionSizes = <<2, 2, 2, 2, 1>>

\* C12 amended: 9 fish among 5 workers, with the size main computes
\* (9 / 5 = 1), give partitions of sizes 1,1,1,1,5; the sizes 2,2,2,2,1
\* are those of compute_subvec_range called with subvec_size = 2, as
\* compute_subvec_range_test calls it.
C12_SizesAsComputed ==
    /\ NineAmongFive =>
          /\ subvec_size = 1
          /\ PartitionSizes = <<1, 1, 1, 1, 5>>
    /\ [k \in 1 .. TEST_MAX_ITER |->
           LET r == compute_subvec_range(TEST_VEC_SIZE, TEST_SUBVEC_SIZE,
                                         k - 1, TEST_MAX_ITER)
           IN  r.end - r.start] = <<2, 2, 2, 2, 1>>

C12_Witness ==
    /\ NineAmongFive
    /\ Len(subvec[0]) = 1
    /\ Len(subvec[TEST_MAX_ITER - 1]) = 5
\* The elements the last partition holds beyond the truncated N / W.
LastExtra ==
    Len(subvec[thread_count - 1]) - (Len(lanternfish) \div thread_count)

\* Every worker but the last gets [i*b, (i+1)*b), exactly b elements, and
\* the last gets [(W-1)*b, N), with b = N / W truncated.
RangesFollowPolicy ==
    LET N == Len(lanternfish)
        W == thread_count
        b == N \div W
    IN  \A i \in Workers :
           /\ Ranges[i] = IF i < W - 1
                          THEN [start |-> i * b, end |-> (i + 1) * b]
                          ELSE [start |-> (W - 1) * b, end |-> N]
           /\ wpc[i] # "unspawned" =>
                 /\ subvec[i] = SubSeq(lanternfish, Ranges[i].start + 1,
                                       Ranges[i].end)
                 /\ i < W - 1 => Len(subvec[i]) = b

\* C13 as stated: the ranges follow the policy and the last partition holds
\* between 0 and base_size - 1 elements beyond base_size.
C13_Original ==
    /\ RangesFollowPolicy
    /\ children = thread_count =>
          /\ 0 <= LastExtra
          /\ LastExtra <= (Len(lanternfish) \div thread_count) - 1

\* C13 amended: the ranges follow the policy and the last partition holds
\* N mod W elements beyond base_size, between 0 and W - 1.
C13_SizePolicy ==
    /\ RangesFollowPolicy
    /\ children = thread_count =>
          /\ LastExtra = Len(lanternfish) % thread_count
          /\ 0 <= LastExtra
          /\ LastExtra <= thread_count - 1

\* The last partition holds at least base_size extra elements.
C13_Witness ==
    /\ children = thread_count
    /\ thread_count > 1
    /\ Len(lanternfish) \div thread_count >= 1
    /\ LastExtra >= Len(lanternfish) \div thread_count
    /\ Len(subvec[0]) = Len(lanternfish) \div thread_count
FewerFishThanWorkers ==
    /\ Len(lanternfish) < thread_count
    /\ children = thread_count

\* C14 as stated: with fewer fish than workers the empty partitions are
\* the trailing ones: after an empty partition every partition is empty.
C14_Original ==
    FewerFishThanWorkers =>
        \A i, j \in Workers :
            (i < j /\ subvec[i] = <<>>) => subvec[j] = <<>>

\* C14 amended: with fewer fish than workers base_size is 0, every
\* partition but the last is empty and the last is the whole population:
\* the empty partitions are the leading ones.
C14_EmptyAreLeading ==
    FewerFishThanWorkers =>
        /\ subvec_size = 0
        /\ \A i \in Workers : i < thread_count - 1 => subvec[i] = <<>>
        /\ subvec[thread_count - 1] = lanternfish

C14_Witness ==
    /\ FewerFishThanWorkers
    /\ lanternfish # <<>>
    /\ subvec[0] = <<>>
    /\ subvec[thread_count - 1] # <<>>
\* The values main has received, in arrival order (fish_counts without
\* the 0 it starts with).
Received == Tail(fish_counts)

\* C15: for the partitions main built and the horizon, the printed total
\* is the sum of the workers' counts whatever the order the values arrived
\* in: the received values are the workers' counts, each once, in some
\* order, and the total is a function of the partitions and the horizon
\* alone.
C15_TotalOrderIndependent ==
    total # NoTotal =>
        /\ \A v \in {count[w] : w \in Workers} :
              Cardinality({k \in 1 .. Len(Received) : Received[k] = v})
                 = Cardinality({w \in Workers : count[w] = v})
        /\ Len(Received) = thread_count
        /\ total = SumSeq([k \in 1 .. thread_count |->
                      simulate_spawning_group(subvec[k - 1], simulation_time)])

\* The total is printed and the values arrived in the reverse of the spawn
\* order.
C15_Witness ==
    /\ total # NoTotal
    /\ thread_count > 1
    /\ Received[1] = count[1]
    /\ Received[2] = count[0]
    /\ count[0] # count[1]
\* C16: once a worker is in its simulation loop the target of its progress
\* bar is the length k of its partition; while it simulates, the position
\* is the number of originating fish it has finished (it does not move
\* with the days); the position stays between 0 and k, and the bar is
\* finished, at position k, exactly from the moment the worker has called
\* finish_with_message.
C16_WorkerProgress ==
    \A w \in Workers :
        LET pb == progress_bars[w]
            k == Len(subvec[w])
        IN  /\ wpc[w] \in {"loop", "sim", "panicked"} \/ Returned(w) =>
                  pb.len = k
            /\ wpc[w] \in {"loop", "sim", "returned"} =>
                  /\ pb.pos = fish_idx[w]
                  /\ ~pb.finished
            /\ wpc[w] = "returned" => pb.pos = k
            /\ wpc[w] # "unspawned" => 0 <= pb.pos /\ pb.pos <= k
            /\ pb.finished <=> wpc[w] \in {"send", "exit", "done"}
            /\ pb.finished =>
                  /\ pb.pos = k
                  /\ pb.msg = <<"thread", w, "done">>

\* A worker is in the middle of its partition, on the last day of its
\* second fish, with the bar at 1 of k.
C16_Witness ==
    \E w \in Workers :
        /\ wpc[w] = "sim"
        /\ simulation_time > 1
        /\ day[w] = simulation_time
        /\ Len(subvec[w]) > 1
        /\ progress_bars[w].pos = 1
        /\ progress_bars[w].len = Len(subvec[w])
\* C17: of two calls of simulate_spawning_group on the same fish and
\* horizon, one with a progress bar and one with None, both return the
\* same count, which is the count a computation without any bar gives;
\* whenever they are at the same point (same fish, same day) they hold the
\* same vector of fish in the same order and the same accumulator; and the
\* call with None writes no bar.
C17_ProgressDoesNotInfluence ==
    /\ (wpc[0] = wpc[1] /\ fish_idx[0] = fish_idx[1] /\ day[0] = day[1]) =>
          /\ spawns[0] = spawns[1]
          /\ count[0] = count[1]
    /\ \A w \in Workers :
          wpc[w] = "returned" =>
              count[w] = simulate_spawning_group(subvec[w], simulation_time)
    /\ \A w \in Workers :
          ~has_pb[w] => progress_bars[w] = NewBar(simulation_time)

\* Both calls have returned, after at least one spawn; only the bar of the
\* call with Some(pb) has moved.
C17_Witness ==
    /\ has_pb[0] /\ ~has_pb[1]
    /\ wpc[0] = "returned" /\ wpc[1] = "returned"
    /\ count[0] = count[1]
    /\ count[0] > Len(lanternfish)
    /\ progress_bars[0].pos = Len(lanternfish)
    /\ progress_bars[1].pos = 0
\* C18: the loader rejects an empty population and a timer outside [0, 8]
\* before main partitions: once partitioning has begun the population is
\* not empty and holds only timers in [0, 8], and so does every partition.
C18_LoaderRejectsBadInput ==
    children > 0 =>
        /\ lanternfish # <<>>
        /\ \A i \in 1 .. Len(lanternfish) : lanternfish[i] \in 0 .. 8
        /\ \A w \in Workers :
              \A i \in 1 .. Len(subvec[w]) : subvec[w][i] \in 0 .. 8
TimerRange == 0 .. FIRST_SPAWN_TIMER

\* C19: if every fish of the initial population has a timer in [0, 8],
\* every fish a simulation holds, original or spawned, has a timer in
\* [0, 8], and the next simulate_day of each of them stays in [0, 8] (the
\* decrement is only taken above 0) and spawns nothing outside [0, 8].
C19_TimersStayInRange ==
    (\A i \in 1 .. Len(lanternfish) : lanternfish[i] \in TimerRange) =>
        \A t \in HeldTimers :
            /\ t \in TimerRange
            /\ simulate_day(t).timer \in TimerRange
            /\ t > 0 => simulate_day(t).timer = t - 1
            /\ \A i \in 1 .. Len(simulate_day(t).spawn) :
                  simulate_day(t).spawn[i] \in TimerRange

\* Long after the first resets: the vector holds fish at 0, at the reset
\* value and at the first-cycle value.
C19_Witness ==
    \E w \in Workers :
        /\ wpc[w] = "sim"
        /\ day[w] > 2 * FIRST_SPAWN_TIMER
        /\ {0, DEFAULT_SPAWN_TIMER, FIRST_SPAWN_TIMER}
              \subseteq {spawns[w][i] : i \in 1 .. Len(spawns[w])}
RunCompleted ==
    /\ total # NoTotal
    /\ mpc = "done"
    /\ Len(Received) = thread_count
    /\ joined = thread_count
    /\ \A w \in Workers : wpc[w] = "done" /\ sends[w] = 1

\* C20: under fair scheduling a run in which no worker panics reaches its
\* end: every worker has sent and ended, main has received one value per
\* worker, has joined every worker and has printed the total.
C20_FaultFreeRunCompletes ==
    <>(SomePanicked \/ RunCompleted)

C20_Witness ==
    /\ RunCompleted
    /\ ~SomePanicked
    /\ thread_count > 1
    /\ simulation_time > 0
    /\ \A w \in Workers : subvec[w] # <<>>
\* The length of the partition main builds for worker w.
PartitionLen(w) == Ranges[w].end - Ranges[w].start

\* C21 as stated: when the bars have been allocated (no thread spawned
\* yet) there are W + 1 of them and each worker's bar has the length of
\* that worker's partition as its target.
C21_Original ==
    (mpc = "spawn" /\ children = 0) =>
        /\ DOMAIN progress_bars = 0 .. thread_count
        /\ \A w \in Workers : progress_bars[w].len = PartitionLen(w)

\* C21 amended: there are W + 1 bars; each worker's bar is created at
\* position 0 with simulation_time as its target and keeps that target
\* until the worker starts simulate_spawning_group, which sets it to the
\* length of the worker's partition.
C21_BarsAsAllocated ==
    /\ DOMAIN progress_bars = 0 .. thread_count
    /\ \A w \in Workers :
          /\ wpc[w] \in {"unspawned", "start"} =>
                /\ progress_bars[w].len = simulation_time
                /\ progress_bars[w].pos = 0
          /\ wpc[w] \notin {"unspawned", "start"} =>
                /\ progress_bars[w].len = Len(subvec[w])
                /\ progress_bars[w].len = PartitionLen(w)

\* A spawned worker has not started yet: its bar still has the horizon as
\* its target, which is not the length of its partition.
C21_Witness ==
    \E w \in Workers :
        /\ wpc[w] = "start"
        /\ progress_bars[w].len = simulation_time
        /\ Len(subvec[w]) # simulation_time
        /\ \E v \in Workers : v # w /\ wpc[v] = "sim"
                                 /\ progress_bars[v].len = Len(subvec[v])
\* The aggregate bar and the states of main in which the receive loop is
\* still ahead or running.
total_pb == progress_bars[thread_count]
BeforeAllDone == mpc \in {"spawn", "recv", "finish"}

\* C22: the aggregate bar has simulation_time * thread_count as its target;
\* until main finishes it, it is exactly as it was created (no worker
\* advances it); main finishes it with "all done" only when thread_count
\* values have been received, and no worker is joined before that; the
\* finish does not depend on the position or the target.
C22_AggregateBar ==
    /\ total_pb.len = simulation_time * thread_count
    /\ ~total_pb.finished =>
          /\ total_pb = NewBar(simulation_time * thread_count)
          /\ joined = 0
    /\ BeforeAllDone => ~total_pb.finished
    /\ mpc = "finish" => Len(Received) = thread_count
    /\ total_pb.finished =>
          /\ Len(Received) = thread_count
          /\ children = thread_count
          /\ total_pb.msg = <<"all done">>
          /\ total_pb.pos = total_pb.len
    /\ mpc \in {"join", "print", "done"} => total_pb.finished

\* The aggregate bar is finished, nothing is joined yet, the workers have
\* advanced their own bars, and the nominal target is not what they did.
C22_Witness ==
    /\ total_pb.finished
    /\ mpc = "join"
    /\ joined = 0
    /\ thread_count > 1
    /\ \A w \in Workers : progress_bars[w].pos > 0
    /\ \E w \in Workers : wpc[w] = "exit"
    /\ total_pb.len # Len(lanternfish)

\* What the workers with a non-empty partition return, summed.
RECURSIVE NonEmptyContribution(_)
NonEmptyContribution(n) ==
    IF n = 0 THEN 0
    ELSE NonEmptyContribution(n - 1)
         + (IF subvec[n - 1] = <<>> THEN 0
            ELSE simulate_spawning_group(subvec[n - 1], simulation_time))

\* C23: a spawned worker with an empty partition never simulates a fish
\* and never panics; its count stays 0; when it has left the send it has
\* sent exactly one value (its count, 0) and its bar is finished; main
\* completes, and the total is what the other workers contribute.
C23_EmptyPartition ==
    /\ \A w \in Workers :
          (wpc[w] # "unspawned" /\ subvec[w] = <<>>) =>
              /\ wpc[w] \notin {"sim", "panicked"}
              /\ spawns[w] = <<>> /\ day[w] = 0 /\ fish_idx[w] = 0
              /\ count[w] = 0
              /\ sends[w] <= 1
              /\ wpc[w] \in {"start", "loop", "returned", "send"} => sends[w] = 0
              /\ wpc[w] \in {"exit", "done"} =>
                    /\ sends[w] = 1
                    /\ progress_bars[w].finished
                    /\ progress_bars[w].len = 0
    /\ total # NoTotal => total = NonEmptyContribution(thread_count)

\* A worker with an empty partition has ended after one send, another
\* worker had fish, and main printed the total.
C23_Witness ==
    /\ total # NoTotal
    /\ total > 0
    /\ \E w \in Workers :
          /\ subvec[w] = <<>>
          /\ wpc[w] = "done"
          /\ sends[w] = 1
          /\ progress_bars[w].finished
    /\ \E w \in Workers : subvec[w] # <<>>
\* The reference of C24: only the number of fish per timer value is kept.
\* One day: the fish at timer 0 go to timer 6 and as many new fish appear
\* at timer 8; every other number moves down by one timer.
\* The numbers are a tuple: c[t + 1] is the number of fish at timer t.
Timers == 0 .. FIRST_SPAWN_TIMER
BucketStep(c) ==
    << c[2], c[3], c[4], c[5], c[6], c[7],
       c[DEFAULT_SPAWN_TIMER + 2] + c[1],
       c[9],
       c[1] >>

RECURSIVE BucketAfter(_, _)
BucketAfter(c, days) ==
    \* (no numbers, no step; the test also has the numbers of each day
    \* evaluated before the next day is taken)
    IF days = 0 \/ Len(c) = 0 THEN c ELSE BucketAfter(BucketStep(c), days - 1)

RECURSIVE BucketSum(_, _)
BucketSum(c, k) == IF k = 0 THEN 0 ELSE c[k] + BucketSum(c, k - 1)
BucketTotal(c) == BucketSum(c, FIRST_SPAWN_TIMER + 1)

\* The number of fish per timer value in a list of timers.
Buckets(s) ==
    [k \in 1 .. FIRST_SPAWN_TIMER + 1 |->
        Cardinality({i \in 1 .. Len(s) : s[i] = k - 1})]

ShortHorizon ==
    CHOOSE d \in TEST_SIM_TIMES : \A e \in TEST_SIM_TIMES : d <= e

\* C24: the materializing simulation and the per-timer reference agree.
\* While a worker simulates a fish, the list it holds after d days has, per
\* timer value, the numbers the reference computes in d steps from that
\* fish; the count a worker returns is the total of the reference run for
\* the horizon from the numbers of its partition; and simulate_spawning of
\* one fish of any timer 0..8 is the total of the reference, for every
\* number of days the run has reached up to the short horizon.
C24_BucketReference ==
    \A w \in Workers :
        /\ wpc[w] = "sim" =>
              /\ Buckets(spawns[w]) =
                     BucketAfter(Buckets(<<subvec[w][fish_idx[w] + 1]>>), day[w])
              /\ Len(spawns[w]) = BucketTotal(Buckets(spawns[w]))
        /\ wpc[w] = "returned" =>
              count[w] = BucketTotal(BucketAfter(Buckets(subvec[w]),
                                                 simulation_time))
        /\ day[w] <= ShortHorizon =>
              \A t \in Timers :
                  simulate_spawning(t, day[w]) =
                      BucketTotal(BucketAfter(Buckets(<<t>>), day[w]))

\* The 80-day run is at its last fish and its last day, holding several
\* generations of fish in the list.
C24_Witness ==
    /\ wpc[0] = "sim"
    /\ simulation_time = 80
    /\ day[0] = 80
    /\ fish_idx[0] = Len(subvec[0]) - 1
    /\ Buckets(spawns[0])[1] > 0
    /\ Buckets(spawns[0])[FIRST_SPAWN_TIMER + 1] > 0
    /\ Len(spawns[0]) > 1000
\* A step of worker w and of nobody else; a step of main and of no worker
\* that is already running.
StepOfWorker(w) ==
    /\ wpc'[w] # wpc[w]
    /\ \A v \in Workers \ {w} : wpc'[v] = wpc[v]
    /\ UNCHANGED mainVars
StepOfMain ==
    /\ <<mpc, children>>' # <<mpc, children>>
    /\ \A v \in Workers : wpc[v] # "unspawned" => wpc'[v] = wpc[v]

\* C25: a step that changes the bar of a worker whose thread has been
\* spawned is a step of that worker and changes no other bar; before the
\* spawn only main writes the bar; a step that changes the aggregate bar is
\* a step of main.
C25_BarOwnership ==
    [][ \A i \in 0 .. thread_count :
          progress_bars'[i] # progress_bars[i] =>
              /\ \A j \in 0 .. thread_count :
                    j # i => progress_bars'[j] = progress_bars[j]
              /\ IF i = thread_count \/ wpc[i] = "unspawned"
                 THEN StepOfMain
                 ELSE StepOfWorker(i) ]_vars

\* Worker 0 has finished its bar while worker 1, still simulating, has
\* advanced and not finished its own.
C25_Witness ==
    /\ thread_count > 1
    /\ progress_bars[0].finished
    /\ progress_bars[0].msg = <<"thread", 0, "done">>
    /\ wpc[1] = "sim"
    /\ progress_bars[1].pos > 0
    /\ progress_bars[1].msg = <<"thread", 1, "simulating">>
    /\ ~progress_bars[1].finished
    /\ ~total_pb.finished

WorkerBarDone(w) ==
    /\ progress_bars[w].finished
    /\ progress_bars[w].msg = <<"thread", w, "done">>
    /\ progress_bars[w].pos = progress_bars[w].len

\* C26: a worker that is at its send, or has sent, has finished its bar
\* with "thread id: done"; and in a run without a panic, when the aggregate
\* bar is finished every worker's bar is finished.
C26_WorkerBarBeforeSend ==
    /\ \A w \in Workers :
          /\ (sends[w] > 0 \/ wpc[w] \in {"send", "exit", "done"}) =>
                WorkerBarDone(w)
          /\ wpc[w] \in {"unspawned", "start", "loop", "sim", "returned"} =>
                ~progress_bars[w].finished /\ sends[w] = 0
    /\ (total_pb.finished /\ ~SomePanicked) =>
          \A w \in Workers : WorkerBarDone(w)

\* Main has finished the aggregate bar and joined the first of several
\* workers; every worker's bar is finished.
C26_Witness ==
    /\ total_pb.finished
    /\ total_pb.msg = <<"all done">>
    /\ thread_count > 1
    /\ joined = 1
    /\ \A w \in Workers : WorkerBarDone(w) /\ sends[w] = 1

\* C27: in compute_subvec_range(N, N / W, i, W) start <= end <= N holds for
\* the population and the worker count of the run and for every worker i,
\* and, at the start of the run, for every N up to three times the largest
\* population and every W up to three times the largest worker count; main
\* does not fail while it builds the partitions, and each partition it
\* builds is the fish at the indices of its range, all below N.
C27_RangesInBounds ==
    LET N == Len(lanternfish)
    IN  /\ \A i \in Workers :
              /\ 0 <= Ranges[i].start
              /\ Ranges[i].start <= Ranges[i].end
              /\ Ranges[i].end <= N
              /\ wpc[i] # "unspawned" =>
                    /\ Len(subvec[i]) = PartitionLen(i)
                    /\ \A k \in 1 .. Len(subvec[i]) :
                          /\ Ranges[i].start + k \in 1 .. N
                          /\ subvec[i][k] = lanternfish[Ranges[i].start + k]
        /\ ~(mpc = "failed" /\ children < thread_count)
        /\ (mpc = "spawn" /\ children = 0) =>
              \A n \in 0 .. 3 * MaxPop : \A wn \in 1 .. 3 * MaxThreads :
                  \A i \in 0 .. wn - 1 :
                      LET r == compute_subvec_range(n, n \div wn, i, wn)
                      IN  r.start <= r.end /\ r.end <= n

\* Every partition of an empty population is built, for several workers,
\* and main has gone on to receive.
C27_Witness ==
    /\ children = thread_count
    /\ thread_count > 1
    /\ lanternfish = <<>>
    /\ mpc = "recv"
    /\ \A w \in Workers : wpc[w] # "unspawned" /\ subvec[w] = <<>>
====
